---------------------------- MODULE Spec2Model ----------------------------
(***************************************************************************)
(* A model of src/obj_to_usdz.py: the OBJ-variant parser                   *)
(* (parse_obj_with_colors), the packager (create_usdz) and the command     *)
(* line driver (main), run on one input file and one output path.          *)
(*                                                                         *)
(* Text is modelled as text: a line of the input is a string, and strip,   *)
(* split, startswith, endswith, replace, basename, int() and float() are   *)
(* computed character by character.  A float is the decimal number its     *)
(* literal denotes, [m, e] standing for m / 10^e with no trailing zero in  *)
(* the fraction, so that "1", "1.0" and "1.00" are the same number.        *)
(***************************************************************************)
EXTENDS Integers, Sequences, FiniteSets, TLC

(***************************************************************************)
(* Bounds of the model.                                                    *)
(***************************************************************************)
\* The longest input file the parser is run on alone, in lines.
MaxLines == 3

\* The longest input file of a whole run, in lines.
MaxRunLines == 2

\* The longest input of two runs side by side, in lines.
MaxPairLines == 1

(***************************************************************************)
(* Strings.                                                                *)
(***************************************************************************)
Ch(s, i) == SubSeq(s, i, i)

Digits == "0123456789"

IsDigit(c) == \E d \in 1..10 : Ch(Digits, d) = c

DigitValue(c) == (CHOOSE d \in 1..10 : Ch(Digits, d) = c) - 1

\* The whitespace str.strip() and str.split() recognise, as far as the
\* inputs of the model contain it.
IsSpace(c) == c \in {" ", "\t"}

RECURSIVE LStrip(_)
LStrip(s) ==
    IF Len(s) > 0 /\ IsSpace(Ch(s, 1)) THEN LStrip(SubSeq(s, 2, Len(s))) ELSE s

RECURSIVE RStrip(_)
RStrip(s) ==
    IF Len(s) > 0 /\ IsSpace(Ch(s, Len(s)))
    THEN RStrip(SubSeq(s, 1, Len(s) - 1))
    ELSE s

\* str.strip()
Strip(s) == RStrip(LStrip(s))

\* str.startswith(p)
StartsWith(s, p) == Len(s) >= Len(p) /\ SubSeq(s, 1, Len(p)) = p

\* str.endswith(p)
EndsWith(s, p) ==
    Len(s) >= Len(p) /\ SubSeq(s, Len(s) - Len(p) + 1, Len(s)) = p

RECURSIVE SplitAcc(_, _, _, _)
SplitAcc(s, i, cur, acc) ==
    IF i > Len(s)
    THEN IF cur = "" THEN acc ELSE Append(acc, cur)
    ELSE IF IsSpace(Ch(s, i))
         THEN SplitAcc(s, i + 1, "", IF cur = "" THEN acc ELSE Append(acc, cur))
         ELSE SplitAcc(s, i + 1, cur \o Ch(s, i), acc)

\* str.split(): the maximal runs of non-whitespace, in order.
Split(s) == SplitAcc(s, 1, "", <<>>)

RECURSIVE UpTo(_, _, _)
UpTo(s, sep, i) ==
    IF i > Len(s) \/ Ch(s, i) = sep THEN SubSeq(s, 1, i - 1) ELSE UpTo(s, sep, i + 1)

\* s.split(sep)[0], sep one character: the text before the first sep.
SplitFirst(s, sep) == UpTo(s, sep, 1)

RECURSIVE ReplaceFrom(_, _, _, _)
ReplaceFrom(s, old, new, i) ==
    IF i > Len(s) THEN ""
    ELSE IF i + Len(old) - 1 <= Len(s) /\ SubSeq(s, i, i + Len(old) - 1) = old
         THEN new \o ReplaceFrom(s, old, new, i + Len(old))
         ELSE Ch(s, i) \o ReplaceFrom(s, old, new, i + 1)

\* str.replace(old, new), old not empty: every occurrence, left to right.
Replace(s, old, new) == ReplaceFrom(s, old, new, 1)

RECURSIVE LastSlash(_, _)
LastSlash(p, i) == IF i = 0 \/ Ch(p, i) = "/" THEN i ELSE LastSlash(p, i - 1)

\* os.path.basename(p): the text after the last "/".
Basename(p) == SubSeq(p, LastSlash(p, Len(p)) + 1, Len(p))

(***************************************************************************)
(* Numbers.                                                                *)
(***************************************************************************)
AllDigits(s) == \A i \in 1..Len(s) : IsDigit(Ch(s, i))

RECURSIVE DecimalValue(_)
DecimalValue(s) ==
    IF Len(s) = 0 THEN 0
    ELSE 10 * DecimalValue(SubSeq(s, 1, Len(s) - 1)) + DigitValue(Ch(s, Len(s)))

HasSign(s) == Len(s) > 0 /\ Ch(s, 1) \in {"+", "-"}

Unsigned(s) == IF HasSign(s) THEN SubSeq(s, 2, Len(s)) ELSE s

SignOf(s) == IF Len(s) > 0 /\ Ch(s, 1) = "-" THEN -1 ELSE 1

\* int(s): an optional sign and one or more digits; anything else raises
\* ValueError (ok = FALSE).  The inputs of the model hold no digit group
\* separator "_", which int() would also accept.
ParseInt(s) ==
    LET u == Unsigned(s) IN
    IF Len(u) > 0 /\ AllDigits(u)
    THEN [ok |-> TRUE, val |-> SignOf(s) * DecimalValue(u)]
    ELSE [ok |-> FALSE, val |-> 0]

RECURSIVE Normalise(_, _)
Normalise(m, e) ==
    IF e > 0 /\ m % 10 = 0 THEN Normalise(m \div 10, e - 1) ELSE [m |-> m, e |-> e]

\* The float m / 10^e.
Dec(m, e) == IF m < 0 THEN [m |-> -(Normalise(-m, e).m), e |-> Normalise(-m, e).e]
             ELSE Normalise(m, e)

\* float(s) on a decimal literal: an optional sign, digits, an optional
\* point and digits, at least one digit in all; anything else raises
\* ValueError (ok = FALSE).  The inputs of the model hold no exponent, "inf",
\* "nan" or "_", which float() would also accept.
ParseFloat(s) ==
    LET u    == Unsigned(s)
        int  == SplitFirst(u, ".")
        frac == IF Len(int) < Len(u) THEN SubSeq(u, Len(int) + 2, Len(u)) ELSE ""
    IN  IF AllDigits(int) /\ AllDigits(frac) /\ Len(int) + Len(frac) > 0
        THEN [ok |-> TRUE,
              val |-> Dec(SignOf(s) * DecimalValue(int \o frac), Len(frac))]
        ELSE [ok |-> FALSE, val |-> Dec(0, 0)]


\* Gf.Vec3f / Vt.FloatArray store single precision: the double m / 10^e is
\* kept exactly when it is a binary fraction (5^e divides m; the magnitudes
\* of the model fit 24 bits) and is rounded to the nearest single otherwise.
RECURSIVE Pow(_, _)
Pow(b, n) == IF n = 0 THEN 1 ELSE b * Pow(b, n - 1)

F32(x) == [m |-> x.m, e |-> x.e, exact |-> x.m % Pow(5, x.e) = 0]

Vec3f(t) == <<F32(t[1]), F32(t[2]), F32(t[3])>>

(***************************************************************************)
(* parse_obj_with_colors, one line at a time.                              *)
(***************************************************************************)
White == <<Dec(1, 0), Dec(1, 0), Dec(1, 0)>>

\* A colour channel clamped to [0, 1].
Clamp01(x) == IF x.m < 0 THEN Dec(0, 0) ELSE IF x.m > Pow(10, x.e) THEN Dec(1, 0) ELSE x

\* ParseVertex clamping the colour it reads.
ParseVertexClamped(parts) ==
    LET F(i) == ParseFloat(parts[i])
        Pos  == <<F(2).val, F(3).val, F(4).val>>
    IN  IF Len(parts) >= 7
        THEN IF \A i \in 2..7 : F(i).ok
             THEN [raised |-> FALSE, append |-> TRUE, pos |-> Pos,
                   color |-> <<Clamp01(F(5).val), Clamp01(F(6).val),
                               Clamp01(F(7).val)>>]
             ELSE [raised |-> TRUE, append |-> FALSE, pos |-> Pos, color |-> White]
        ELSE IF Len(parts) >= 4
        THEN IF \A i \in 2..4 : F(i).ok
             THEN [raised |-> FALSE, append |-> TRUE, pos |-> Pos, color |-> White]
             ELSE [raised |-> TRUE, append |-> FALSE, pos |-> Pos, color |-> White]
        ELSE [raised |-> FALSE, append |-> FALSE, pos |-> White, color |-> White]

\* ParseVertex taking a position-only record to have exactly 4 fields:
\* elif len(parts) == 4.
ParseVertexExactly4(parts) ==
    LET F(i) == ParseFloat(parts[i])
        Pos  == <<F(2).val, F(3).val, F(4).val>>
    IN  IF Len(parts) >= 7
        THEN IF \A i \in 2..7 : F(i).ok
             THEN [raised |-> FALSE, append |-> TRUE, pos |-> Pos,
                   color |-> <<F(5).val, F(6).val, F(7).val>>]
             ELSE [raised |-> TRUE, append |-> FALSE, pos |-> Pos, color |-> White]
        ELSE IF Len(parts) = 4
        THEN IF \A i \in 2..4 : F(i).ok
             THEN [raised |-> FALSE, append |-> TRUE, pos |-> Pos, color |-> White]
             ELSE [raised |-> TRUE, append |-> FALSE, pos |-> Pos, color |-> White]
        ELSE [raised |-> FALSE, append |-> FALSE, pos |-> White, color |-> White]

\* Lines 56-71: what a v record does.  raised: a float() raised ValueError;
\* append: a vertex and its colour are appended.
ParseVertex(parts) ==
    LET F(i) == ParseFloat(parts[i])
        Pos  == <<F(2).val, F(3).val, F(4).val>>
    IN  IF Len(parts) >= 7
        THEN IF \A i \in 2..7 : F(i).ok
             THEN [raised |-> FALSE, append |-> TRUE, pos |-> Pos,
                   color |-> <<F(5).val, F(6).val, F(7).val>>]
             ELSE [raised |-> TRUE, append |-> FALSE, pos |-> Pos, color |-> White]
        ELSE IF Len(parts) >= 4
        THEN IF \A i \in 2..4 : F(i).ok
             THEN [raised |-> FALSE, append |-> TRUE, pos |-> Pos, color |-> White]
             ELSE [raised |-> TRUE, append |-> FALSE, pos |-> Pos, color |-> White]
        ELSE [raised |-> FALSE, append |-> FALSE, pos |-> White, color |-> White]

\* Lines 75-80: the 0-based vertex index of every reference of an f record,
\* the integer before the reference's first "/" minus one.  raised: an int()
\* raised ValueError.
FaceIndices(parts) ==
    LET R(i) == ParseInt(SplitFirst(parts[i], "/")) IN
    [raised |-> \E i \in 2..Len(parts) : ~R(i).ok,
     idx    |-> [i \in 1..(Len(parts) - 1) |-> R(i + 1).val - 1]]

\* Triangulate with the fan one triangle short: range(1, len - 2).
TriangulateShort(face_indices) ==
    LET n == Len(face_indices) IN
    IF n = 3 THEN <<face_indices>>
    ELSE IF n > 3
    THEN [i \in 1..(n - 3) |->
            <<face_indices[1], face_indices[i + 1], face_indices[i + 2]>>]
    ELSE <<>>

\* Triangulate as a strip: triangle i starts at reference i, not at the first.
TriangulateStrip(face_indices) ==
    LET n == Len(face_indices) IN
    IF n = 3 THEN <<face_indices>>
    ELSE IF n > 3
    THEN [i \in 1..(n - 2) |->
            <<face_indices[i], face_indices[i + 1], face_indices[i + 2]>>]
    ELSE <<>>

\* Triangulate that appends a polygon as it is.
TriangulateKeepPolygon(face_indices) ==
    IF Len(face_indices) >= 3 THEN <<face_indices>> ELSE <<>>

\* Lines 83-88: the triangles appended for one face.
Triangulate(face_indices) ==
    LET n == Len(face_indices) IN
    IF n = 3 THEN <<face_indices>>
    ELSE IF n > 3
    THEN [i \in 1..(n - 2) |->
            <<face_indices[1], face_indices[i + 1], face_indices[i + 2]>>]
    ELSE <<>>

\* ParseStep that appends the default colour of no record: a position-only
\* vertex gets no colour.
ParseStepNoDefaultColor(st, raw) ==
    LET line  == Strip(raw)
        parts == Split(line)
    IN  IF line = "" \/ StartsWith(line, "#") THEN st
        ELSE IF parts = <<>> THEN st
        ELSE IF parts[1] = "v"
        THEN LET v == ParseVertex(parts) IN
             [st EXCEPT !.vertex_count = @ + 1,
                        !.raised   = v.raised,
                        !.vertices = IF v.append THEN Append(@, v.pos) ELSE @,
                        !.colors   = IF v.append /\ Len(parts) >= 7
                                     THEN Append(@, v.color) ELSE @]
        ELSE IF parts[1] = "f"
        THEN LET f == FaceIndices(parts) IN
             IF f.raised THEN [st EXCEPT !.raised = TRUE]
             ELSE [st EXCEPT !.faces = @ \o Triangulate(f.idx)]
        ELSE st

\* ParseStep that puts what it reads in front of the lists: insert(0, ...).
ParseStepPrepending(st, raw) ==
    LET line  == Strip(raw)
        parts == Split(line)
    IN  IF line = "" \/ StartsWith(line, "#") THEN st
        ELSE IF parts = <<>> THEN st
        ELSE IF parts[1] = "v"
        THEN LET v == ParseVertex(parts) IN
             [st EXCEPT !.vertex_count = @ + 1,
                        !.raised   = v.raised,
                        !.vertices = IF v.append THEN <<v.pos>> \o @ ELSE @,
                        !.colors   = IF v.append THEN <<v.color>> \o @ ELSE @]
        ELSE IF parts[1] = "f"
        THEN LET f == FaceIndices(parts) IN
             IF f.raised THEN [st EXCEPT !.raised = TRUE]
             ELSE [st EXCEPT !.faces = Triangulate(f.idx) \o @]
        ELSE st

\* ParseStep that takes every record whose tag starts with "v" for a vertex:
\* parts[0].startswith('v').
ParseStepPrefixV(st, raw) ==
    LET line  == Strip(raw)
        parts == Split(line)
    IN  IF line = "" \/ StartsWith(line, "#") THEN st
        ELSE IF parts = <<>> THEN st
        ELSE IF StartsWith(parts[1], "v")
        THEN LET v == ParseVertex(parts) IN
             [st EXCEPT !.vertex_count = @ + 1,
                        !.raised   = v.raised,
                        !.vertices = IF v.append THEN Append(@, v.pos) ELSE @,
                        !.colors   = IF v.append THEN Append(@, v.color) ELSE @]
        ELSE IF parts[1] = "f"
        THEN LET f == FaceIndices(parts) IN
             IF f.raised THEN [st EXCEPT !.raised = TRUE]
             ELSE [st EXCEPT !.faces = @ \o Triangulate(f.idx)]
        ELSE st

\* Lines 43-88: the body of the loop on one line of the file, from the
\* parser's state st to its next state.
ParseStep(st, raw) ==
    LET line  == Strip(raw)
        parts == Split(line)
    IN  IF line = "" \/ StartsWith(line, "#") THEN st
        ELSE IF parts = <<>> THEN st
        ELSE IF parts[1] = "v"
        THEN LET v == ParseVertex(parts) IN
             [st EXCEPT !.vertex_count = @ + 1,
                        !.raised   = v.raised,
                        !.vertices = IF v.append THEN Append(@, v.pos) ELSE @,
                        !.colors   = IF v.append THEN Append(@, v.color) ELSE @]
        ELSE IF parts[1] = "f"
        THEN LET f == FaceIndices(parts) IN
             IF f.raised THEN [st EXCEPT !.raised = TRUE]
             ELSE [st EXCEPT !.faces = @ \o Triangulate(f.idx)]
        ELSE st

(***************************************************************************)
(* create_usdz: the document.                                              *)
(***************************************************************************)
\* Lines 98-102: where the stage is written.
IntermediatePath(output_path) ==
    IF EndsWith(output_path, ".usdz")
    THEN Replace(output_path, ".usdz", ".usdc")
    ELSE output_path

\* Line 124: [idx for face in faces for idx in face].
RECURSIVE Flatten(_)
Flatten(fcs) == IF fcs = <<>> THEN <<>> ELSE Head(fcs) \o Flatten(Tail(fcs))

\* MeshDocument with one opacity per face: [1.0] * len(faces).
MeshDocumentOpacityPerFace(vs, cs, fcs) ==
    [points            |-> [i \in 1..Len(vs) |-> Vec3f(vs[i])],
     faceVertexCounts  |-> [i \in 1..Len(fcs) |-> Len(fcs[i])],
     faceVertexIndices |-> Flatten(fcs),
     displayColor      |-> [i \in 1..Len(cs) |-> Vec3f(cs[i])],
     displayOpacity    |-> [i \in 1..Len(fcs) |-> F32(Dec(1, 0))]]

\* Lines 116-139: the attributes of /World/Mesh.
MeshDocument(vs, cs, fcs) ==
    [points            |-> [i \in 1..Len(vs) |-> Vec3f(vs[i])],
     faceVertexCounts  |-> [i \in 1..Len(fcs) |-> Len(fcs[i])],
     faceVertexIndices |-> Flatten(fcs),
     displayColor      |-> [i \in 1..Len(cs) |-> Vec3f(cs[i])],
     displayOpacity    |-> [i \in 1..Len(cs) |-> F32(Dec(1, 0))]]

\* The stage Usd.Stage.CreateNew writes: no prim yet.
EmptyDocument == MeshDocument(<<>>, <<>>, <<>>)

(***************************************************************************)
(* The files.                                                              *)
(***************************************************************************)
Absent == [kind |-> "absent"]

\* A file that was at a path before the conversion started.
Stale == [kind |-> "stale"]

ObjFile(lines) == [kind |-> "obj", lines |-> lines]

UsdFile(doc) == [kind |-> "usd", doc |-> doc]

\* A ZIP container: written and closed as intended (complete = TRUE), or
\* open, truncated or otherwise left partial by a failure (FALSE).
ZipFile(entries, complete) ==
    [kind |-> "zip", entries |-> entries, complete |-> complete]

\* One member of a container: zipf.write(filename, arcname) under ZIP_STORED.
ZipEntry(arcname, content) ==
    [name |-> arcname, method |-> "ZIP_STORED", content |-> content]

(***************************************************************************)
(* The inputs of a run.                                                    *)
(***************************************************************************)
LinePool ==
    { "\tv 0 0 0 2 -1 0.25 ",
      "v 4 5 6",
      "v 1 2 3 0.5 x",
      "v 1 x 3 0 0 0",
      "v 1 2",
      "f 1 2 1",
      "f 1/1 2//2 3/3/3 4",
      "f 1 a 3",
      "# f 1 2 3",
      "vn 0 0 1",
      " " }

\* The input files of at most n lines.
ObjFiles(n) == { ObjFile(l) : l \in UNION { [1..k -> LinePool] : k \in 0..n } }

\* An input beside the outputs, and one whose name is also the name of an
\* output and of an intermediate document.
InputPaths == { "mesh.obj", "out.usdc" }

OutputPaths == { "out.usdz", "ar.usdz/chair.usdz", "out.usdc" }

Paths == InputPaths \cup OutputPaths \cup { IntermediatePath(p) : p \in OutputPaths }

VARIABLES
    fs,                 \* the file at every path
    fs0,                \* the files when the run started
    input_path,         \* sys.argv[1]
    output_path,        \* sys.argv[2]
    pc,                 \* where the run is
    outcome,            \* how the run ended, "running" until it has
    ln,                 \* the next line of the input the parser reads
    parser,             \* vertices, colors, faces, vertex_count of the parser
    intermediate_path,  \* create_usdz's intermediate_path
    stage,              \* the stage in memory
    zip_error,          \* the except branch of create_usdz ran
    peer                \* a second conversion, run by another process

vars == <<fs, fs0, input_path, output_path, pc, outcome, ln, parser,
          intermediate_path, stage, zip_error, peer>>

vertices == parser.vertices
colors == parser.colors
faces == parser.faces

\* The lines of the input file as the run found it.
Lines == fs0[input_path].lines

\* The exit status of the process: sys.exit(1), an uncaught exception (1),
\* or falling off the end of main (0).
ExitStatus == IF outcome = "complete" THEN 0 ELSE 1

\* A run at start, its input, output path and the other files drawn from
\* inputs, outputs and others.
Start(at, sources, inputs, outputs, others) ==
    /\ input_path \in sources
    /\ output_path \in outputs
    /\ \E in \in inputs, other \in others :
          fs = [p \in Paths |-> IF p = input_path THEN in ELSE other]
    /\ fs0 = fs
    /\ pc = at
    /\ outcome = "running"
    /\ ln = 1
    /\ parser = [vertices |-> <<>>, colors |-> <<>>, faces |-> <<>>,
                 vertex_count |-> 0, raised |-> FALSE]
    /\ intermediate_path = ""
    /\ stage = EmptyDocument
    /\ zip_error = FALSE

\* What a process holds of its own: its arguments, its position, its data.
\* The files are shared.
Context ==
    [input_path |-> input_path, output_path |-> output_path, pc |-> pc,
     outcome |-> outcome, ln |-> ln, parser |-> parser,
     intermediate_path |-> intermediate_path, stage |-> stage,
     zip_error |-> zip_error]

\* No second process.
NoPeer ==
    [input_path |-> "", output_path |-> "", pc |-> "none", outcome |-> "running",
     ln |-> 1,
     parser |-> [vertices |-> <<>>, colors |-> <<>>, faces |-> <<>>,
                 vertex_count |-> 0, raised |-> FALSE],
     intermediate_path |-> "", stage |-> EmptyDocument, zip_error |-> FALSE]

\* A whole run: main is entered; the input may be missing, and the other
\* paths are all free or all taken by older files.
Init ==
    /\ Start("main", InputPaths, ObjFiles(MaxRunLines) \cup { Absent }, OutputPaths,
             { Absent, Stale })
    /\ peer = NoPeer

\* The parser alone: parse_obj_with_colors is entered on an input file.
InitParser ==
    /\ Start("parse", { "mesh.obj" }, ObjFiles(MaxLines), { "out.usdz" }, { Absent })
    /\ peer = NoPeer

\* Two runs started together on one input, each with an output path of its
\* own.
InitPair ==
    /\ Start("main", { "mesh.obj" }, ObjFiles(MaxPairLines), OutputPaths, { Absent })
    /\ \E other \in OutputPaths \ { output_path } :
          peer = [Context EXCEPT !.output_path = other]

Exit(how) ==
    /\ pc' = "exit"
    /\ outcome' = how

(***************************************************************************)
(* main and parse_obj_with_colors.                                         *)
(***************************************************************************)
\* Lines 174-179: a missing input ends the run, otherwise the file is opened.
MainStart ==
    /\ pc = "main"
    /\ IF fs[input_path] = Absent
       THEN Exit("input_not_found")
       ELSE pc' = "parse" /\ UNCHANGED outcome
    /\ UNCHANGED <<peer, fs, fs0, input_path, output_path, ln, parser,
                   intermediate_path, stage, zip_error>>

\* Lines 42-88: one line of the file.  A ValueError leaves the loop, the
\* function and main: the process ends with a traceback.
ParseLine ==
    /\ pc = "parse"
    /\ ln <= Len(fs[input_path].lines)
    /\ parser' = ParseStep(parser, fs[input_path].lines[ln])
    /\ IF parser'.raised
       THEN Exit("raised") /\ UNCHANGED ln
       ELSE ln' = ln + 1 /\ UNCHANGED <<pc, outcome>>
    /\ UNCHANGED <<peer, fs, fs0, input_path, output_path, intermediate_path, stage,
                   zip_error>>

\* ParseReturn without the check for an empty vertex list.
ParseReturnUnchecked ==
    /\ pc = "parse"
    /\ ln > Len(fs[input_path].lines)
    /\ pc' = "create"
    /\ UNCHANGED <<peer, fs, fs0, input_path, output_path, outcome, ln, parser,
                   intermediate_path, stage, zip_error>>

\* Lines 90 and 179-190: the parser returns; no vertex ends the run.
ParseReturn ==
    /\ pc = "parse"
    /\ ln > Len(fs[input_path].lines)
    /\ IF Len(vertices) = 0
       THEN Exit("no_vertices")
       ELSE pc' = "create" /\ UNCHANGED outcome
    /\ UNCHANGED <<peer, fs, fs0, input_path, output_path, ln, parser,
                   intermediate_path, stage, zip_error>>

(***************************************************************************)
(* create_usdz.  Every call that touches the disk either succeeds or       *)
(* fails, as the environment decides.                                      *)
(***************************************************************************)
\* Lines 97-105: Usd.Stage.CreateNew writes an empty layer at the
\* intermediate path; its failure is an exception nothing catches.
CreateStage ==
    /\ pc = "create"
    /\ intermediate_path' = IntermediatePath(output_path)
    /\ \E ok \in BOOLEAN :
          IF ok
          THEN /\ fs' = [fs EXCEPT ![intermediate_path'] = UsdFile(EmptyDocument)]
               /\ pc' = "define"
               /\ UNCHANGED outcome
          ELSE Exit("raised") /\ UNCHANGED fs
    /\ UNCHANGED <<peer, fs0, input_path, output_path, ln, parser, stage, zip_error>>

\* Lines 107-139: the mesh is defined on the stage in memory.
DefineMesh ==
    /\ pc = "define"
    /\ stage' = MeshDocument(vertices, colors, faces)
    /\ pc' = "save"
    /\ UNCHANGED <<peer, fs, fs0, input_path, output_path, outcome, ln, parser,
                   intermediate_path, zip_error>>

\* Lines 142-146: the stage is saved; a raw document is the final output.
SaveStage ==
    /\ pc = "save"
    /\ \E ok \in BOOLEAN :
          IF ok
          THEN /\ fs' = [fs EXCEPT ![intermediate_path] = UsdFile(stage)]
               /\ pc' = IF EndsWith(output_path, ".usdz") THEN "zip_open" ELSE "return"
               /\ UNCHANGED outcome
          ELSE Exit("raised") /\ UNCHANGED fs
    /\ UNCHANGED <<peer, fs0, input_path, output_path, ln, parser, intermediate_path,
                   stage, zip_error>>

\* Line 150: zipfile.ZipFile(output_path, 'w', ZIP_STORED) creates or
\* truncates the output.
ZipOpen ==
    /\ pc = "zip_open"
    /\ \E ok \in BOOLEAN :
          IF ok
          THEN /\ fs' = [fs EXCEPT ![output_path] = ZipFile(<<>>, FALSE)]
               /\ pc' = "zip_write"
          ELSE pc' = "except" /\ UNCHANGED fs
    /\ UNCHANGED <<peer, fs0, input_path, output_path, outcome, ln, parser,
                   intermediate_path, stage, zip_error>>

\* ZipWrite storing the file under its whole path: no arcname.
ZipWriteFullPath ==
    /\ pc = "zip_write"
    /\ \E ok \in BOOLEAN :
          IF ok /\ fs[intermediate_path] # Absent
          THEN /\ fs' = [fs EXCEPT ![output_path] =
                           ZipFile(Append(@.entries,
                                          ZipEntry(intermediate_path,
                                                   fs[intermediate_path])),
                                   FALSE)]
               /\ pc' = "zip_close"
          ELSE pc' = "except" /\ UNCHANGED fs
    /\ UNCHANGED <<peer, fs0, input_path, output_path, outcome, ln, parser,
                   intermediate_path, stage, zip_error>>

\* Lines 152-153: the intermediate file is read and stored under its base
\* name; a file that is no longer there cannot be read.
ZipWrite ==
    /\ pc = "zip_write"
    /\ \E ok \in BOOLEAN :
          IF ok /\ fs[intermediate_path] # Absent
          THEN /\ fs' = [fs EXCEPT ![output_path] =
                           ZipFile(Append(@.entries,
                                          ZipEntry(Basename(intermediate_path),
                                                   fs[intermediate_path])),
                                   FALSE)]
               /\ pc' = "zip_close"
          ELSE pc' = "except" /\ UNCHANGED fs
    /\ UNCHANGED <<peer, fs0, input_path, output_path, outcome, ln, parser,
                   intermediate_path, stage, zip_error>>

\* Line 150, leaving the with block: the central directory is written.
ZipClose ==
    /\ pc = "zip_close"
    /\ \E ok \in BOOLEAN :
          IF ok
          THEN /\ fs' = [fs EXCEPT ![output_path] = ZipFile(@.entries, TRUE)]
               /\ pc' = "cleanup"
          ELSE pc' = "except" /\ UNCHANGED fs
    /\ UNCHANGED <<peer, fs0, input_path, output_path, outcome, ln, parser,
                   intermediate_path, stage, zip_error>>

\* Cleanup that leaves the intermediate file.
CleanupKeep ==
    /\ pc = "cleanup"
    /\ pc' = "return"
    /\ UNCHANGED <<peer, fs, fs0, input_path, output_path, outcome, ln, parser,
                   intermediate_path, stage, zip_error>>

\* Lines 155-159: the intermediate file is removed if it is there (the
\* removal of a file the run has just written is taken to succeed).
Cleanup ==
    /\ pc = "cleanup"
    /\ fs' = IF fs[intermediate_path] # Absent
             THEN [fs EXCEPT ![intermediate_path] = Absent]
             ELSE fs
    /\ pc' = "return"
    /\ UNCHANGED <<peer, fs0, input_path, output_path, outcome, ln, parser,
                   intermediate_path, stage, zip_error>>

\* ZipFailed that also removes the intermediate file, as a finally would.
ZipFailedRemoving ==
    /\ pc = "except"
    /\ zip_error' = TRUE
    /\ fs' = [fs EXCEPT ![intermediate_path] = Absent]
    /\ pc' = "return"
    /\ UNCHANGED <<peer, fs0, input_path, output_path, outcome, ln, parser,
                   intermediate_path, stage>>

\* Lines 161-163: any exception of the try block is printed as a warning
\* and create_usdz returns.
ZipFailed ==
    /\ pc = "except"
    /\ zip_error' = TRUE
    /\ pc' = "return"
    /\ UNCHANGED <<peer, fs, fs0, input_path, output_path, outcome, ln, parser,
                   intermediate_path, stage>>

\* Lines 191-193: create_usdz returned; "Conversion complete!".
MainDone ==
    /\ pc = "return"
    /\ Exit("complete")
    /\ UNCHANGED <<peer, fs, fs0, input_path, output_path, ln, parser,
                   intermediate_path, stage, zip_error>>

Next ==
    \/ MainStart
    \/ ParseLine
    \/ ParseReturn
    \/ CreateStage
    \/ DefineMesh
    \/ SaveStage
    \/ ZipOpen
    \/ ZipWrite
    \/ ZipClose
    \/ Cleanup
    \/ ZipFailed
    \/ MainDone

Spec == Init /\ [][Next]_vars

\* The processor passes from one process to the other: what the running one
\* holds is put aside and what the other one held is taken up.  A process
\* that has exited is not taken up again.
Switch ==
    /\ peer.pc \notin { "none", "exit" }
    /\ peer' = Context
    /\ input_path' = peer.input_path
    /\ output_path' = peer.output_path
    /\ pc' = peer.pc
    /\ outcome' = peer.outcome
    /\ ln' = peer.ln
    /\ parser' = peer.parser
    /\ intermediate_path' = peer.intermediate_path
    /\ stage' = peer.stage
    /\ zip_error' = peer.zip_error
    /\ UNCHANGED <<fs, fs0>>

\* Two runs of main at once, their steps interleaved in any order.
NextPair ==
    \/ MainStart
    \/ ParseLine
    \/ ParseReturn
    \/ CreateStage
    \/ DefineMesh
    \/ SaveStage
    \/ ZipOpen
    \/ ZipWrite
    \/ ZipClose
    \/ Cleanup
    \/ ZipFailed
    \/ MainDone
    \/ Switch

SpecPair == InitPair /\ [][NextPair]_vars

\* parse_obj_with_colors from its entry to its return.
NextParser ==
    \/ ParseLine
    \/ ParseReturn

SpecParser == InitParser /\ [][NextParser]_vars

(***************************************************************************)
(* Reading the input: the vocabulary of the properties of the parser.      *)
(***************************************************************************)
\* The whitespace-separated fields of every line an input can hold.
FieldsOf == [raw \in LinePool |-> Split(Strip(raw))]

Fields(raw) == FieldsOf[raw]

\* A line is a record of kind tag ("v", "f"): its first field is tag.
IsRecord(raw, tag) == Fields(raw) # <<>> /\ Fields(raw)[1] = tag

\* The number of vertex references of an f record.
NRefs(raw) == Len(Fields(raw)) - 1

\* Reference j (from 1) of an f record: the integer before its first "/".
RefOk(raw, j) == ParseInt(SplitFirst(Fields(raw)[j + 1], "/")).ok
Ref(raw, j) == ParseInt(SplitFirst(Fields(raw)[j + 1], "/")).val

\* Field j (from 1, the record's tag) of a record as a number.
NumOk(raw, j) == ParseFloat(Fields(raw)[j]).ok
Num(raw, j) == ParseFloat(Fields(raw)[j]).val

\* The parser is about to read line ln.
Reading == pc = "parse" /\ ln <= Len(Lines)

(***************************************************************************)
(* C1.  When every f record read so far carries at least 3 references,     *)
(* the number of faces is the sum over those records of (n - 2), n the     *)
(* number of references of the record; so it is for the faces returned.    *)
(***************************************************************************)
\* The references of line i when it is an f record, -1 when it is none.
RefCount(i) ==
    LET f == Fields(Lines[i]) IN
    IF f # <<>> /\ f[1] = "f" THEN Len(f) - 1 ELSE -1

RECURSIVE FanCount(_)
FanCount(n) ==
    IF n = 0 THEN 0
    ELSE FanCount(n - 1) + (IF RefCount(n) = -1 THEN 0 ELSE RefCount(n) - 2)

C1_FanCountLaw ==
    (\A i \in 1..(ln - 1) : RefCount(i) = -1 \/ RefCount(i) >= 3)
        => Len(faces) = FanCount(ln - 1)

\* The parser returned the faces of a quad and a triangle.
C1_Witness ==
    /\ pc = "create"
    /\ \E i, j \in 1..Len(Lines) :
          /\ IsRecord(Lines[i], "f") /\ NRefs(Lines[i]) = 4
          /\ IsRecord(Lines[j], "f") /\ NRefs(Lines[j]) = 3
    /\ Len(faces) = 3

(***************************************************************************)
(* C2.  Reading an f record of k >= 3 integer references r1..rk appends,   *)
(* in order, exactly the triangles (r1 - 1, r(i+1) - 1, r(i+2) - 1) for    *)
(* i = 1..k-2, all sharing the first reference.                            *)
(***************************************************************************)
ExpectedFan(raw) ==
    [i \in 1..(NRefs(raw) - 2) |->
        <<Ref(raw, 1) - 1, Ref(raw, i + 1) - 1, Ref(raw, i + 2) - 1>>]

C2_FanTriangles ==
    [][ ( /\ Reading
          /\ IsRecord(Lines[ln], "f")
          /\ NRefs(Lines[ln]) >= 3
          /\ \A j \in 1..NRefs(Lines[ln]) : RefOk(Lines[ln], j) )
        => faces' = faces \o ExpectedFan(Lines[ln]) ]_vars

\* The quad 1 2 3 4 was read first and gave (0,1,2) and (0,2,3).
C2_Witness ==
    /\ ln = 2
    /\ IsRecord(Lines[1], "f")
    /\ NRefs(Lines[1]) = 4
    /\ \A j \in 1..4 : Ref(Lines[1], j) = j
    /\ faces = << <<0, 1, 2>>, <<0, 2, 3>> >>

C4_DefaultWhite ==
    [][ ( /\ Reading
          /\ IsRecord(Lines[ln], "v")
          /\ Len(Fields(Lines[ln])) \in 4..6
          /\ \A j \in 2..4 : NumOk(Lines[ln], j) )
        => /\ vertices' = Append(vertices, <<Num(Lines[ln], 2), Num(Lines[ln], 3),
                                             Num(Lines[ln], 4)>>)
           /\ colors' = Append(colors, <<Dec(1, 0), Dec(1, 0), Dec(1, 0)>>) ]_vars

\* A record with an incomplete colour was read and gave a white vertex.
C4_Witness ==
    /\ ln >= 2
    /\ IsRecord(Lines[ln - 1], "v")
    /\ Len(Fields(Lines[ln - 1])) = 6
    /\ Len(colors) >= 1
    /\ colors[Len(colors)] = <<Dec(1, 0), Dec(1, 0), Dec(1, 0)>>
    /\ vertices[Len(vertices)] = <<Dec(1, 0), Dec(2, 0), Dec(3, 0)>>

(***************************************************************************)
(* Reading the run: the vocabulary of the properties of the packager.      *)
(***************************************************************************)
\* The stage was saved: create_usdz is past line 142.
Saved ==
    \/ pc \in {"zip_open", "zip_write", "zip_close", "cleanup", "except", "return"}
    \/ outcome = "complete"

\* create_usdz returned to main.
Returned == pc = "return" \/ outcome = "complete"

\* The documents on disk: the scene files and the members of containers.
DocsOnDisk ==
    { fs[p].doc : p \in { q \in Paths : fs[q].kind = "usd" } }
    \cup UNION { { fs[p].entries[i].content.doc : i \in 1..Len(fs[p].entries) } :
                 p \in { q \in Paths : fs[q].kind = "zip" } }

\* The container at the output path is written and closed.
ArchiveWritten == fs[output_path].kind = "zip" /\ fs[output_path].complete

(***************************************************************************)
(* C5.  While the parser has no vertex, no file is created, changed or     *)
(* removed and the run is in main's checks, in the parser or ended; when   *)
(* it ended, its exit status is 1.                                         *)
(***************************************************************************)
C5_NoVerticesNoOutput ==
    Len(vertices) = 0
        => /\ fs = fs0
           /\ pc \in {"main", "parse", "exit"}
           /\ pc = "exit" => ExitStatus = 1

\* An input of face records only ended with "No vertices found".
C5_Witness ==
    /\ pc = "exit"
    /\ outcome = "no_vertices"
    /\ faces # <<>>
    /\ fs[output_path] = Absent
    /\ fs[IntermediatePath(output_path)] = Absent

(***************************************************************************)
(* C6.  Once the stage is saved, every document on disk has one point per  *)
(* parsed vertex and one face-vertex count per parsed face, each count 3.  *)
(***************************************************************************)
C6_DocumentCounts ==
    Saved
        => /\ DocsOnDisk # {}
           /\ \A d \in DocsOnDisk :
                 /\ Len(d.points) = Len(vertices)
                 /\ Len(d.faceVertexCounts) = Len(faces)
                 /\ \A i \in 1..Len(d.faceVertexCounts) : d.faceVertexCounts[i] = 3

\* A mesh of one vertex and the two triangles of a quad was packaged.
C6_Witness ==
    /\ outcome = "complete"
    /\ ArchiveWritten
    /\ Len(vertices) = 1
    /\ Len(faces) = 2

(***************************************************************************)
(* C7.  Once the stage is saved, the face-vertex indices of every document *)
(* on disk are those of the parsed faces whose three indices all lie in    *)
(* 0..k-1, k the number of vertices, in order: a face with an index out of *)
(* range is left out.                                                      *)
(***************************************************************************)
FaceInRange(face) == \A j \in 1..Len(face) : face[j] \in 0..(Len(vertices) - 1)

C7_IndicesInRange ==
    Saved
        => \A d \in DocsOnDisk :
              d.faceVertexIndices = Flatten(SelectSeq(faces, FaceInRange))

(***************************************************************************)
(* C8.  When create_usdz returned with no exception caught: for a .usdz    *)
(* output path the file there is a closed container of exactly one member, *)
(* stored uncompressed, holding the saved document under the last          *)
(* component of the document's path, no directory before it; for any other *)
(* output path there is no container and the document is the file at the   *)
(* output path.                                                            *)
(***************************************************************************)
NoSlash(n) == \A i \in 1..Len(n) : Ch(n, i) # "/"

C8_ArchiveLayout ==
    (Returned /\ ~zip_error)
        => IF EndsWith(output_path, ".usdz")
           THEN LET z == fs[output_path] IN
                /\ z.kind = "zip"
                /\ z.complete
                /\ Len(z.entries) = 1
                /\ z.entries[1].method = "ZIP_STORED"
                /\ z.entries[1].content = UsdFile(stage)
                /\ NoSlash(z.entries[1].name)
                /\ \/ intermediate_path = z.entries[1].name
                   \/ EndsWith(intermediate_path, "/" \o z.entries[1].name)
           ELSE /\ fs[output_path] = UsdFile(stage)
                /\ \A p \in Paths : fs[p].kind # "zip"

\* An archive in a directory was written: its member has the bare name.
C8_Witness ==
    /\ outcome = "complete"
    /\ ~zip_error
    /\ output_path = "ar.usdz/chair.usdz"
    /\ fs[output_path].entries[1].name = "chair.usdc"

C10_IntermediateKept ==
    (Returned /\ zip_error) => fs[intermediate_path] = UsdFile(stage)

\* Writing the member failed: a truncated container and the document stay.
C10_Witness ==
    /\ pc = "return"
    /\ zip_error
    /\ fs[output_path].kind = "zip"
    /\ ~fs[output_path].complete
    /\ fs[intermediate_path].kind = "usd"

(***************************************************************************)
(* C11.  A run ends with "Conversion complete!" and exit status 0 only     *)
(* when no packaging step failed and the final output is fully written:    *)
(* the closed container for a .usdz output path, the saved document for    *)
(* any other.                                                              *)
(***************************************************************************)
C11_FailurePropagates ==
    outcome = "complete"
        => /\ ~zip_error
           /\ IF EndsWith(output_path, ".usdz")
              THEN ArchiveWritten
              ELSE fs[output_path] = UsdFile(stage)

(***************************************************************************)
(* C12.  In every state of a run towards a .usdz output path, the file at  *)
(* the output path is the one that was there at the start (or none) or a   *)
(* written and closed container.                                           *)
(***************************************************************************)
C12_OutputNeverPartial ==
    EndsWith(output_path, ".usdz")
        => \/ fs[output_path] = fs0[output_path]
           \/ ArchiveWritten

(***************************************************************************)
(* C15.  A mesh of at least one vertex and no face is rejected: past the   *)
(* parser, such a run creates, changes and removes no file and does not    *)
(* end with "Conversion complete!".                                        *)
(***************************************************************************)
C15_EmptyFaceListRejected ==
    (Len(vertices) >= 1 /\ faces = <<>> /\ pc # "parse")
        => /\ fs = fs0
           /\ outcome # "complete"

(***************************************************************************)
(* C16.  In every state of a run, whatever the input and output paths and  *)
(* however the run goes, the file at the input path is the file the run    *)
(* started with.                                                           *)
(***************************************************************************)
C16_InputUntouched == fs[input_path] = fs0[input_path]

(***************************************************************************)
(* C14.  Reading a malformed record (a v record of 4 or more fields with a *)
(* field to parse that is no number, an f record with a reference that is  *)
(* no integer) skips it: the lists stay as they are and the parser goes on *)
(* with the next line.                                                     *)
(***************************************************************************)
\* The last field of a v record that float() is applied to.
LastParsedField(raw) == IF Len(Fields(raw)) >= 7 THEN 7 ELSE 4

Malformed(raw) ==
    \/ /\ IsRecord(raw, "v")
       /\ Len(Fields(raw)) >= 4
       /\ \E j \in 2..LastParsedField(raw) : ~NumOk(raw, j)
    \/ /\ IsRecord(raw, "f")
       /\ \E j \in 1..NRefs(raw) : ~RefOk(raw, j)

C14_MalformedSkipped ==
    [][ (Reading /\ Malformed(Lines[ln]))
        => /\ pc' = "parse"
           /\ ln' = ln + 1
           /\ vertices' = vertices
           /\ colors' = colors
           /\ faces' = faces ]_vars

(***************************************************************************)
(* C17.  Reading an f record of k > 3 integer references ref[0..k-1]       *)
(* appends exactly the triangles (ref[0], ref[i], ref[i+1]), in order, for *)
(* the i of a half-open interval [lo, hi): the claim names [1, k-2), the   *)
(* loop of line 87 runs over [1, k-1).                                     *)
(***************************************************************************)
\* The triangles (ref[0], ref[i], ref[i+1]) for lo <= i < hi, ref counted
\* from 0, as 0-based vertex indices.
FanOver(raw, lo, hi) ==
    [n \in 1..(hi - lo) |->
        <<Ref(raw, 1) - 1, Ref(raw, lo + n) - 1, Ref(raw, lo + n + 1) - 1>>]

PolygonRead ==
    /\ Reading
    /\ IsRecord(Lines[ln], "f")
    /\ NRefs(Lines[ln]) > 3
    /\ \A j \in 1..NRefs(Lines[ln]) : RefOk(Lines[ln], j)

\* The claim as stated: i in [1, k-2).
C17_FanHalfOpenShort ==
    [][ PolygonRead
        => faces' = faces \o FanOver(Lines[ln], 1, NRefs(Lines[ln]) - 2) ]_vars

\* The claim amended: i in [1, k-1).
C17_FanHalfOpen ==
    [][ PolygonRead
        => faces' = faces \o FanOver(Lines[ln], 1, NRefs(Lines[ln]) - 1) ]_vars

\* A quad was read after a triangle and added its two triangles to the one
\* already there.
C17_Witness ==
    /\ ln = 3
    /\ IsRecord(Lines[1], "f") /\ NRefs(Lines[1]) = 3
    /\ IsRecord(Lines[2], "f") /\ NRefs(Lines[2]) = 4
    /\ Len(faces) = 3
    /\ faces[2] = <<0, 1, 2>>
    /\ faces[3] = <<0, 2, 3>>

(***************************************************************************)
(* The records read so far, for the properties of the whole lists.         *)
(***************************************************************************)
\* A line is a v record that appends a vertex: 4 or more fields, the fields
\* float() is applied to all numbers.
Accepted(raw) ==
    /\ IsRecord(raw, "v")
    /\ Len(Fields(raw)) >= 4
    /\ \A j \in 2..LastParsedField(raw) : NumOk(raw, j)

\* The position and the colour an accepted v record carries.
PositionOf == [raw \in LinePool |-> <<Num(raw, 2), Num(raw, 3), Num(raw, 4)>>]

ColorOf ==
    [raw \in LinePool |->
        IF Len(Fields(raw)) >= 7
        THEN <<Num(raw, 5), Num(raw, 6), Num(raw, 7)>>
        ELSE <<Dec(1, 0), Dec(1, 0), Dec(1, 0)>>]

AcceptedTable == [raw \in LinePool |-> Accepted(raw)]

\* The numbers of the accepted v records among the first n lines, in order.
RECURSIVE AcceptedLines(_)
AcceptedLines(n) ==
    IF n = 0 THEN <<>>
    ELSE IF AcceptedTable[Lines[n]] THEN Append(AcceptedLines(n - 1), n)
    ELSE AcceptedLines(n - 1)

\* The triangles of one line: the fan of an f record of 3 or more integer
\* references, nothing for any other line.
FanTable ==
    [raw \in LinePool |->
        IF /\ IsRecord(raw, "f")
           /\ NRefs(raw) >= 3
           /\ \A j \in 1..NRefs(raw) : RefOk(raw, j)
        THEN ExpectedFan(raw)
        ELSE <<>>]

\* The triangles of the first n lines, record after record.
RECURSIVE FansOf(_)
FansOf(n) == IF n = 0 THEN <<>> ELSE FansOf(n - 1) \o FanTable[Lines[n]]

IsPrefix(s, t) == Len(s) <= Len(t) /\ SubSeq(t, 1, Len(s)) = s

(***************************************************************************)
(* C18.  In every state of the parser, after any number of lines, the      *)
(* colour list is as long as the vertex list, and the i-th colour and the  *)
(* i-th vertex are those of one and the same v record; so main never finds *)
(* the lengths different.                                                  *)
(***************************************************************************)
C18_ColorsParallel ==
    LET a == AcceptedLines(ln - 1) IN
    /\ Len(colors) = Len(vertices)
    /\ Len(vertices) = Len(a)
    /\ \A i \in 1..Len(a) :
          /\ vertices[i] = PositionOf[Lines[a[i]]]
          /\ colors[i] = ColorOf[Lines[a[i]]]

\* A coloured vertex was read after a position-only one: two vertices, the
\* first white, the second with its own colour.
C18_Witness ==
    /\ Len(vertices) = 2
    /\ Len(colors) = 2
    /\ colors[1] = <<Dec(1, 0), Dec(1, 0), Dec(1, 0)>>
    /\ colors[2] # colors[1]
    /\ vertices[1] # vertices[2]

(***************************************************************************)
(* C19.  Every step of the parser keeps what the lists hold and only adds  *)
(* at their ends; after it the vertices are the positions of the accepted  *)
(* v records read, in the order of the file, and the faces are the fans of *)
(* the f records read, record after record, each fan whole and in order.   *)
(***************************************************************************)
C19_OrderPreserved ==
    [][ /\ IsPrefix(vertices, vertices')
        /\ IsPrefix(colors, colors')
        /\ IsPrefix(faces, faces')
        /\ Len(vertices') = Len(AcceptedLines(ln' - 1))
        /\ \A i \in 1..Len(vertices') :
              vertices'[i] = PositionOf[Lines[AcceptedLines(ln' - 1)[i]]]
        /\ faces' = FansOf(ln' - 1) ]_vars

\* A quad was read between two different vertices: the vertices are in the
\* order of the file and the two triangles of the quad are side by side.
C19_Witness ==
    /\ ln = 4
    /\ Accepted(Lines[1])
    /\ IsRecord(Lines[2], "f") /\ NRefs(Lines[2]) = 4
    /\ Accepted(Lines[3])
    /\ PositionOf[Lines[1]] # PositionOf[Lines[3]]
    /\ vertices = <<PositionOf[Lines[1]], PositionOf[Lines[3]]>>
    /\ faces = << <<0, 1, 2>>, <<0, 2, 3>> >>

(***************************************************************************)
(* C20.  Reading a blank line, a "#" comment, a record whose first field   *)
(* is neither "v" nor "f", or a v record of fewer than 4 fields leaves the *)
(* three lists as they are and the parser goes on with the next line.      *)
(***************************************************************************)
Ignorable(raw) ==
    \/ Fields(raw) = <<>>
    \/ StartsWith(Fields(raw)[1], "#")
    \/ Fields(raw)[1] \notin { "v", "f" }
    \/ IsRecord(raw, "v") /\ Len(Fields(raw)) < 4

C20_IgnoredLines ==
    [][ (Reading /\ Ignorable(Lines[ln]))
        => /\ vertices' = vertices
           /\ colors' = colors
           /\ faces' = faces
           /\ ~parser'.raised
           /\ pc' = "parse"
           /\ ln' = ln + 1 ]_vars

\* A vertex, then a normal record and a short v record were read: the list
\* still holds the one vertex and the parser is at the end of the file.
C20_Witness ==
    /\ ln = 4
    /\ pc = "parse"
    /\ Accepted(Lines[1])
    /\ IsRecord(Lines[2], "vn")
    /\ IsRecord(Lines[3], "v") /\ Len(Fields(Lines[3])) < 4
    /\ Len(vertices) = 1
    /\ Len(colors) = 1
    /\ faces = <<>>

(***************************************************************************)
(* C13.  Of two runs side by side with different output paths, once both   *)
(* have derived their intermediate paths: the two intermediate paths       *)
(* differ, neither is the output path of the other run, and the            *)
(* intermediate document a run has saved and not yet removed is on disk as *)
(* that run saved it.                                                      *)
(***************************************************************************)
\* A process is between saving its stage and removing the intermediate file.
Packing(c) == c.pc \in { "zip_open", "zip_write", "zip_close", "cleanup" }

C13_PathsDisjoint ==
    (output_path # peer.output_path)
        => /\ (intermediate_path # "" /\ peer.intermediate_path # "")
                => /\ intermediate_path # peer.intermediate_path
                   /\ intermediate_path # peer.output_path
                   /\ peer.intermediate_path # output_path
           /\ Packing(Context) => fs[intermediate_path] = UsdFile(stage)
           /\ Packing(peer) => fs[peer.intermediate_path] = UsdFile(peer.stage)

(***************************************************************************)
(* Reading a path: its directory, its stem and its final extension.        *)
(***************************************************************************)
\* The text of p up to and with its last "/".
DirOf(p) == SubSeq(p, 1, LastSlash(p, Len(p)))

RECURSIVE LastDot(_, _)
LastDot(b, i) == IF i = 0 \/ Ch(b, i) = "." THEN i ELSE LastDot(b, i - 1)

\* The base name of p without its final extension, and that extension; a
\* name that only starts with "." has none.
StemOf(p) ==
    LET b == Basename(p)
        d == LastDot(b, Len(b))
    IN  IF d <= 1 THEN b ELSE SubSeq(b, 1, d - 1)

ExtensionOf(p) ==
    LET b == Basename(p)
        d == LastDot(b, Len(b))
    IN  IF d <= 1 THEN "" ELSE SubSeq(b, d, Len(b))

(***************************************************************************)
(* C21.  When the output path ends in ".usdz", the intermediate path       *)
(* create_usdz derives has the directory and the stem of the output path   *)
(* and the extension ".usdc": it is the output path with its final         *)
(* extension replaced.                                                     *)
(***************************************************************************)
C21_SameDirectoryAndStem ==
    (EndsWith(output_path, ".usdz") /\ intermediate_path # "")
        => /\ DirOf(intermediate_path) = DirOf(output_path)
           /\ StemOf(intermediate_path) = StemOf(output_path)
           /\ ExtensionOf(intermediate_path) = ".usdc"

(***************************************************************************)
(* C22.  Once the stage is saved, every document on disk has one colour    *)
(* per parsed vertex, the i-th the colour of the i-th vertex as a single   *)
(* precision triple, and one opacity per parsed vertex, each exactly 1.0.  *)
(***************************************************************************)
C22_ColorAndOpacityPerVertex ==
    Saved
        => /\ DocsOnDisk # {}
           /\ \A d \in DocsOnDisk :
                 /\ Len(d.displayColor) = Len(vertices)
                 /\ \A i \in 1..Len(d.displayColor) :
                       d.displayColor[i] = Vec3f(colors[i])
                 /\ Len(d.displayOpacity) = Len(vertices)
                 /\ \A i \in 1..Len(d.displayOpacity) :
                       /\ d.displayOpacity[i].m = 1
                       /\ d.displayOpacity[i].e = 0
                       /\ d.displayOpacity[i].exact

\* A mesh of a coloured and a white vertex was packaged: the member of the
\* container has the two colours in order and two opacities.
C22_Witness ==
    /\ outcome = "complete"
    /\ ArchiveWritten
    /\ Len(vertices) = 2
    /\ colors[1] # colors[2]
    /\ colors[2] = White
    /\ Len(fs[output_path].entries) = 1
    /\ Len(fs[output_path].entries[1].content.doc.displayColor) = 2
    /\ fs[output_path].entries[1].content.doc.displayColor[1] = Vec3f(colors[1])
    /\ Len(fs[output_path].entries[1].content.doc.displayOpacity) = 2

=============================================================================
